---- MODULE Spec2Model ----
(***************************************************************************)
(* Stock-Portfolio-Analyzer: the command-line validation (cli.py), the     *)
(* download step (data_loader.py), the portfolio aggregator (portfolio.py),*)
(* the metrics engine (metrics.py) and the pipeline of main.py.            *)
(*                                                                         *)
(* Floating-point values are modelled as pairs <<n, d>>: a reduced         *)
(* fraction n/d with d > 0 for a finite value, <<0, 0>> for NaN and        *)
(* <<1, 0>> / <<-1, 0>> for +inf / -inf.  Arithmetic on finite values is   *)
(* exact; rounding is not modelled.                                        *)
(***************************************************************************)
EXTENDS Integers, Sequences, FiniteSets, TLC

(***************************************************************************)
(* Bounds of the model.                                                    *)
(***************************************************************************)
\* longest weight list / largest num_tickers handed to validate_weights
MaxNumTickers == 3
\* columns and rows of the returns table handed to calculate_portfolio_returns
MaxCols == 2
MaxRows == 2
\* longest return series handed to the metric functions, and the widest window
MaxLen == 3
MaxWindow == 2
\* longest --tickers / --weights list on the command line
MaxTickers == 2
\* trading days in the period the provider is asked for
MaxDates == 4

(***************************************************************************)
(* Floats.                                                                 *)
(***************************************************************************)
Abs(x) == IF x < 0 THEN -x ELSE x

RECURSIVE GCD(_, _)
GCD(a, b) == IF b = 0 THEN a ELSE GCD(b, a % b)

\* the float n/d, reduced; d = 0 gives NaN (n = 0) or a signed infinity
Rat(n, d) ==
    IF d = 0 THEN <<(IF n > 0 THEN 1 ELSE IF n < 0 THEN -1 ELSE 0), 0>>
    ELSE LET g == GCD(Abs(n), Abs(d))
             s == IF d < 0 THEN -1 ELSE 1
         IN  <<(s * n) \div g, (s * d) \div g>>

NaN  == <<0, 0>>
Zero == <<0, 1>>
One  == <<1, 1>>

IsNaN(x)    == x = NaN
IsFinite(x) == x[2] > 0

\* x + y
FAdd(x, y) ==
    IF IsNaN(x) \/ IsNaN(y) THEN NaN
    ELSE IF ~IsFinite(x) /\ ~IsFinite(y) THEN (IF x = y THEN x ELSE NaN)
    ELSE IF ~IsFinite(x) THEN x
    ELSE IF ~IsFinite(y) THEN y
    ELSE Rat(x[1] * y[2] + y[1] * x[2], x[2] * y[2])

FNeg(x) == <<-x[1], x[2]>>

\* x - y
FSub(x, y) == FAdd(x, FNeg(y))

\* x * y
FMul(x, y) ==
    IF IsNaN(x) \/ IsNaN(y) THEN NaN
    ELSE Rat(x[1] * y[1], x[2] * y[2])

\* x / y (numpy: a division by zero gives an infinity or NaN, it does not raise)
FDiv(x, y) ==
    IF IsNaN(x) \/ IsNaN(y) THEN NaN
    ELSE IF ~IsFinite(x) /\ ~IsFinite(y) THEN NaN
    ELSE IF ~IsFinite(y) THEN Zero
    ELSE IF y[1] < 0 THEN Rat(-(x[1] * y[2]), -(x[2] * y[1]))
    ELSE Rat(x[1] * y[2], x[2] * y[1])

\* x < y (every comparison with NaN is false)
FLess(x, y) ==
    /\ ~IsNaN(x)
    /\ ~IsNaN(y)
    /\ IF IsFinite(x) /\ IsFinite(y) THEN x[1] * y[2] < y[1] * x[2]
       ELSE IF IsFinite(x) THEN y[1] > 0
       ELSE IF IsFinite(y) THEN x[1] < 0
       ELSE x[1] < y[1]

\* x == y
FEq(x, y) == ~IsNaN(x) /\ ~IsNaN(y) /\ x = y

\* np.sum / sum(): the sum of a sequence of floats, 0.0 for the empty one
RECURSIVE FSum(_)
FSum(s) == IF s = <<>> THEN Zero ELSE FAdd(FSum(SubSeq(s, 1, Len(s) - 1)), s[Len(s)])

\* every sequence over S of length lo..hi
SeqsOf(S, lo, hi) == UNION {[1..n -> S] : n \in lo..hi}

(***************************************************************************)
(* State.                                                                  *)
(***************************************************************************)
VARIABLES
    \* one call of validate_weights(weights, num_tickers)
    weights,        \* [given |-> FALSE] is None, else the list in vals
    num_tickers,
    vw_ret,         \* [called, raised, value]
    \* one call of calculate_portfolio_returns(returns, weights)
    returns,        \* the returns table: a sequence of rows, one float per column
    ncols,          \* len(returns.columns)
    pr_ret,         \* [called, raised, value]
    \* one call of each metric function on one return series
    series,         \* the return series
    risk_free_rate,
    window,
    m_ret,          \* [called, cumulative, annualized, volatility, sharpe, drawdown, rolling]
    rounding,       \* the variance float64 rounding leaves for a constant series
    \* one run of main()
    argv,               \* the command line as argparse hands it to validate_arguments
    args,               \* the namespace main works with
    pc,                 \* the step main is about to take, "exited" after the process ended
    prices,             \* the table download_stock_data returned
    failed_tickers,
    returns_df,         \* calculate_returns(prices)
    individual_metrics, \* the records of the assets that have one
    portfolio_returns,
    portfolio_metrics,
    files,              \* the files written into the output directory
    summary_csv,        \* the rows written to portfolio_summary.csv
    console,            \* what was printed, one entry per message
    download_calls,     \* how often download_stock_data was entered
    exit_status,        \* the status the process ended with, -1 while it runs
    exit_cause          \* which sys.exit or return ended it

memoryVars ==
    <<args, prices, failed_tickers, returns_df, individual_metrics,
      portfolio_returns, portfolio_metrics>>
mainVars ==
    <<argv, memoryVars, pc, files, summary_csv, console, download_calls, exit_status, exit_cause>>

weightsVars == <<weights, num_tickers, vw_ret>>
portfolioVars == <<returns, ncols, pr_ret>>
metricsVars == <<series, risk_free_rate, window, m_ret, rounding>>

vars == <<weightsVars, portfolioVars, metricsVars, mainVars>>

\* Python's None for an optional list
NoList == [given |-> FALSE, vals |-> <<>>]
List(s) == [given |-> TRUE, vals |-> s]

NotCalled == [called |-> FALSE, raised |-> "", value |-> <<>>]
Returned(v) == [called |-> TRUE, raised |-> "", value |-> v]
Raised(e) == [called |-> TRUE, raised |-> e, value |-> <<>>]

(***************************************************************************)
(* portfolio.py                                                            *)
(***************************************************************************)
\* the weights a command line or a test can give, in tenths
WeightVals == {Rat(-1, 10), Rat(0, 10), Rat(1, 10), Rat(2, 10)}

validate_weights_CountAfterSign(w, n) ==
    IF ~w.given THEN Returned([i \in 1..n |-> FDiv(One, Rat(n, 1))])
    ELSE IF \E i \in 1..Len(w.vals) : FLess(w.vals[i], Zero)
        THEN Raised("Weights cannot be negative")
    ELSE IF Len(w.vals) # n
        THEN Raised("Number of weights must match number of tickers")
    ELSE IF FEq(FSum(w.vals), Zero)
        THEN Raised("Sum of weights cannot be zero")
    ELSE Returned([i \in 1..n |-> FDiv(w.vals[i], FSum(w.vals))])

validate_weights_DivideByCount(w, n) ==
    IF ~w.given THEN Returned([i \in 1..n |-> FDiv(One, Rat(n, 1))])
    ELSE IF Len(w.vals) # n
        THEN Raised("Number of weights must match number of tickers")
    ELSE IF \E i \in 1..Len(w.vals) : FLess(w.vals[i], Zero)
        THEN Raised("Weights cannot be negative")
    ELSE IF FEq(FSum(w.vals), Zero)
        THEN Raised("Sum of weights cannot be zero")
    ELSE Returned([i \in 1..n |-> FDiv(w.vals[i], Rat(n, 1))])

validate_weights_EqualOverFixed(w, n) ==
    IF ~w.given THEN Returned([i \in 1..n |-> FDiv(One, Rat(MaxNumTickers, 1))])
    ELSE IF Len(w.vals) # n
        THEN Raised("Number of weights must match number of tickers")
    ELSE IF \E i \in 1..Len(w.vals) : FLess(w.vals[i], Zero)
        THEN Raised("Weights cannot be negative")
    ELSE IF FEq(FSum(w.vals), Zero)
        THEN Raised("Sum of weights cannot be zero")
    ELSE Returned([i \in 1..n |-> FDiv(w.vals[i], FSum(w.vals))])

\* validate_weights(weights, num_tickers): the normalized weights, or ValueError
validate_weights(w, n) ==
    IF ~w.given THEN Returned([i \in 1..n |-> FDiv(One, Rat(n, 1))])
    ELSE IF Len(w.vals) # n
        THEN Raised("Number of weights must match number of tickers")
    ELSE IF \E i \in 1..Len(w.vals) : FLess(w.vals[i], Zero)
        THEN Raised("Weights cannot be negative")
    ELSE IF FEq(FSum(w.vals), Zero)
        THEN Raised("Sum of weights cannot be zero")
    ELSE Returned([i \in 1..n |-> FDiv(w.vals[i], FSum(w.vals))])

\* the daily returns a table cell can hold; NaN is a missing return
ReturnVals == {NaN, Rat(1, 10)}

\* Series.sum / DataFrame.sum(axis=1): NaN cells are skipped, an empty or
\* all-NaN row sums to 0.0
SumSkipNa(row) == FSum(SelectSeq(row, LAMBDA x : ~IsNaN(x)))

\* DataFrame.sum(axis=1, skipna=False)
SumKeepNa(row) == FSum(row)

calculate_portfolio_returns_KeepNa(r, n, w) ==
    LET nw == validate_weights(w, n)
    IN  IF nw.raised # "" THEN nw
        ELSE Returned([t \in 1..Len(r) |->
                 SumKeepNa([i \in 1..n |-> FMul(r[t][i], nw.value[i])])])

\* calculate_portfolio_returns(returns, weights), n = len(returns.columns):
\* (returns * normalized_weights).sum(axis=1), or validate_weights' ValueError
calculate_portfolio_returns(r, n, w) ==
    LET nw == validate_weights(w, n)
    IN  IF nw.raised # "" THEN nw
        ELSE Returned([t \in 1..Len(r) |->
                 SumSkipNa([i \in 1..n |-> FMul(r[t][i], nw.value[i])])])

(***************************************************************************)
(* metrics.py                                                              *)
(*                                                                         *)
(* A metric is a record: kind "lit" is the float q; kind "ann" is          *)
(* base ** (252 / days) - 1; kind "sqrt" is the square root of sq; kind    *)
(* "sharpe" is (base ** (252 / days) - 1 - rf) / sqrt(sq).  Powers and     *)
(* roots of fractions are kept in this form instead of being rounded.      *)
(***************************************************************************)
TRADING_DAYS_PER_YEAR == 252

Lit(x) == [kind |-> "lit", q |-> x, base |-> Zero, days |-> 0, rf |-> Zero, sq |-> Zero]

\* the daily returns of a series handed to a metric function
SeriesVals == {Rat(-1, 1), Rat(-1, 2), Zero, Rat(1, 10)}
\* the risk-free rates handed to calculate_sharpe_ratio
RfVals == {Zero, Rat(3, 100), One}

\* (1 + returns).prod()
RECURSIVE ProdOnePlus(_)
ProdOnePlus(r) ==
    IF r = <<>> THEN One
    ELSE FMul(ProdOnePlus(SubSeq(r, 1, Len(r) - 1)), FAdd(One, r[Len(r)]))

RECURSIVE calculate_cumulative_return_Sum(_)
calculate_cumulative_return_Sum(r) ==
    IF r = <<>> THEN Zero
    ELSE FAdd(calculate_cumulative_return_Sum(SubSeq(r, 1, Len(r) - 1)), r[Len(r)])

\* calculate_cumulative_return(returns)
calculate_cumulative_return(r) == FSub(ProdOnePlus(r), One)

\* base ** (252 / days) - 1 for a float64 base
PowMinusOne(b, days) ==
    IF IsNaN(b) THEN Lit(NaN)
    ELSE IF b = One THEN Lit(Zero)
    ELSE IF b = Zero THEN Lit(Rat(-1, 1))
    ELSE IF days = TRADING_DAYS_PER_YEAR THEN Lit(FSub(b, One))
    ELSE IF FLess(b, Zero) /\ TRADING_DAYS_PER_YEAR % days # 0 THEN Lit(NaN)
    ELSE [kind |-> "ann", q |-> Zero, base |-> b, days |-> days, rf |-> Zero, sq |-> Zero]

\* calculate_annualized_return(returns)
calculate_annualized_return(r) ==
    IF Len(r) = 0 THEN Lit(Zero)
    ELSE PowMinusOne(FAdd(One, calculate_cumulative_return(r)), Len(r))

SampleVar_Exact(r) ==
    LET n    == Len(r)
        mean == FDiv(FSum(r), Rat(n, 1))
        dev2 == [i \in 1..n |-> FMul(FSub(r[i], mean), FSub(r[i], mean))]
    IN  FDiv(FSum(dev2), Rat(n - 1, 1))

\* what rounding can leave of the variance of a constant series: the float64
\* mean of n equal values c is c or a neighbour of c
Ulp == Rat(1, 2 ^ 30)

\* a series of two or more equal values other than 0.0
IsConstant(r) == Len(r) >= 2 /\ r[1] # Zero /\ \A i \in 1..Len(r) : r[i] = r[1]

\* Series.var(): the sample variance (n - 1 denominator), NaN for one
\* observation; for a constant series it is 0.0 or the residue of rounding
SampleVar(r) ==
    LET n    == Len(r)
        mean == FDiv(FSum(r), Rat(n, 1))
        dev2 == [i \in 1..n |-> FMul(FSub(r[i], mean), FSub(r[i], mean))]
    IN  IF IsConstant(r) THEN rounding ELSE FDiv(FSum(dev2), Rat(n - 1, 1))

\* Series.std() * np.sqrt(252)
AnnualizedStd(r) ==
    LET v == FMul(SampleVar(r), Rat(TRADING_DAYS_PER_YEAR, 1))
    IN  IF IsNaN(v) \/ v = Zero THEN Lit(v)
        ELSE [kind |-> "sqrt", q |-> Zero, base |-> Zero, days |-> 0, rf |-> Zero, sq |-> v]

\* calculate_annualized_volatility(returns)
calculate_annualized_volatility(r) ==
    IF Len(r) = 0 THEN Lit(Zero) ELSE AnnualizedStd(r)

\* (annualized_return - risk_free_rate) / annualized_vol
SharpeQuotient(a, rf, v) ==
    IF v.kind = "lit" /\ a.kind = "lit" THEN Lit(FDiv(FSub(a.q, rf), v.q))
    ELSE IF v.kind = "lit" /\ IsNaN(v.q) THEN Lit(NaN)
    ELSE [kind |-> "sharpe", q |-> Zero,
          base |-> IF a.kind = "ann" THEN a.base ELSE FAdd(One, a.q),
          days |-> IF a.kind = "ann" THEN a.days ELSE TRADING_DAYS_PER_YEAR,
          rf |-> rf, sq |-> IF v.kind = "sqrt" THEN v.sq ELSE FMul(v.q, v.q)]

calculate_sharpe_ratio_NoZeroGuard(r, rf) ==
    SharpeQuotient(calculate_annualized_return(r), rf, calculate_annualized_volatility(r))

calculate_sharpe_ratio_GuardIsClose(r, rf) ==
    LET a == calculate_annualized_return(r)
        v == calculate_annualized_volatility(r)
    IN  IF v = Lit(Zero) \/ (v.kind = "sqrt" /\ FLess(v.sq, Rat(1, 1000)))
        THEN Lit(Zero) ELSE SharpeQuotient(a, rf, v)

\* calculate_sharpe_ratio(returns, risk_free_rate)
calculate_sharpe_ratio(r, rf) ==
    LET a == calculate_annualized_return(r)
        v == calculate_annualized_volatility(r)
    IN  IF v = Lit(Zero) THEN Lit(Zero) ELSE SharpeQuotient(a, rf, v)

\* (1 + returns).cumprod()
CumProd(r) == [t \in 1..Len(r) |-> ProdOnePlus(SubSeq(r, 1, t))]

FMax(x, y) == IF FLess(x, y) THEN y ELSE x

\* Series.expanding().max()
RECURSIVE RunningMaxAt(_, _)
RunningMaxAt(c, t) == IF t = 1 THEN c[1] ELSE FMax(RunningMaxAt(c, t - 1), c[t])

\* Series.min(): NaN entries are skipped, NaN when nothing is left
RECURSIVE MinSkipNa(_)
MinSkipNa(s) ==
    IF s = <<>> THEN NaN
    ELSE LET rest == MinSkipNa(SubSeq(s, 1, Len(s) - 1))
             x    == s[Len(s)]
         IN  IF IsNaN(x) THEN rest
             ELSE IF IsNaN(rest) THEN x
             ELSE IF FLess(x, rest) THEN x ELSE rest

\* calculate_maximum_drawdown(returns)
calculate_maximum_drawdown(r) ==
    IF Len(r) = 0 THEN Zero
    ELSE LET c  == CumProd(r)
             dd == [t \in 1..Len(r) |->
                       FDiv(FSub(c[t], RunningMaxAt(c, t)), RunningMaxAt(c, t))]
         IN  MinSkipNa(dd)

calculate_rolling_volatility_Trimmed(r, win) ==
    IF Len(r) < win THEN <<>>
    ELSE [t \in 1..(Len(r) - win + 1) |-> AnnualizedStd(SubSeq(r, t, t + win - 1))]

\* calculate_rolling_volatility(returns, window): one entry per observation, NaN
\* until the window is full
calculate_rolling_volatility(r, win) ==
    IF Len(r) = 0 THEN <<>>
    ELSE [t \in 1..Len(r) |->
             IF t < win THEN Lit(NaN)
             ELSE AnnualizedStd(SubSeq(r, t - win + 1, t))]

(***************************************************************************)
(* cli.py                                                                  *)
(*                                                                         *)
(* A string is a sequence of characters.  A date argument is              *)
(* [given, text]: given = FALSE is None, text = <<>> is the empty string,  *)
(* text = <<y, m, d>> is the string "y-m-d".                               *)
(***************************************************************************)
\* the ticker symbols typed on the command line
TickerTokens == {<<"f", " ">>, <<"F">>, <<"T">>, <<" ">>}
\* the --weights values typed on the command line
CliWeightVals == {Rat(-1, 10), Zero, Rat(1, 10)}
NoDate == [given |-> FALSE, text |-> <<>>]
DateArg(t) == [given |-> TRUE, text |-> t]
\* the --start-date / --end-date values: absent, "", two dates, and 2023-02-30
DateTokens ==
    {NoDate, DateArg(<<>>), DateArg(<<2023, 2, 28>>), DateArg(<<2023, 3, 1>>),
     DateArg(<<2023, 2, 30>>)}
\* the --risk-free-rate values
CliRfVals == {Rat(-1, 100), Zero, One, Rat(101, 100)}
\* the --output-dir values: "out", "" and " "
OutputDirs == {<<"o", "u", "t">>, <<>>, <<" ">>}

\* str.upper()
\* the period tokens the help text of --period lists
ValidPeriods ==
    {<<"1", "d">>, <<"5", "d">>, <<"1", "m", "o">>, <<"3", "m", "o">>, <<"6", "m", "o">>,
     <<"1", "y">>, <<"2", "y">>, <<"5", "y">>, <<"1", "0", "y">>, <<"y", "t", "d">>,
     <<"m", "a", "x">>}
\* --period as typed: the default, another listed token, and a token not listed
DefaultPeriod == <<"1", "y">>
PeriodTokens == {DefaultPeriod, <<"5", "d">>, <<"7", "w">>}
\* the default of --risk-free-rate
DefaultRf == Rat(3, 100)

UpperChar(c) == CASE c = "f" -> "F" [] c = "t" -> "T" [] c = "o" -> "O"
                  [] c = "u" -> "U" [] OTHER -> c
Upper(str) == [i \in 1..Len(str) |-> UpperChar(str[i])]

\* str.strip()
RECURSIVE Strip(_)
Strip(str) ==
    IF str = <<>> THEN str
    ELSE IF Head(str) = " " THEN Strip(Tail(str))
    ELSE IF str[Len(str)] = " " THEN Strip(SubSeq(str, 1, Len(str) - 1))
    ELSE str

\* bool(x) of a list or string argument that may be None
Truthy(x) == x.given /\ x.vals # <<>>
TruthyDate(x) == x.given /\ x.text # <<>>

IsLeap(y) == (y % 4 = 0 /\ y % 100 # 0) \/ y % 400 = 0
DaysInMonth(y, m) ==
    IF m = 2 THEN (IF IsLeap(y) THEN 29 ELSE 28)
    ELSE IF m \in {4, 6, 9, 11} THEN 30 ELSE 31

\* datetime.strptime(text, '%Y-%m-%d') does not raise ValueError
Parses(text) ==
    /\ Len(text) = 3
    /\ text[1] \in 1..9999
    /\ text[2] \in 1..12
    /\ text[3] \in 1..DaysInMonth(text[1], text[2])

\* start >= end on parsed dates
DateGeq(a, b) ==
    \/ a[1] > b[1]
    \/ a[1] = b[1] /\ a[2] > b[2]
    \/ a[1] = b[1] /\ a[2] = b[2] /\ a[3] >= b[3]

\* the ticker list validate_arguments leaves in args.tickers
CleanTickers(tickers) ==
    SelectSeq([i \in 1..Len(tickers) |-> Strip(Upper(tickers[i]))],
              LAMBDA t : t # <<>>)

\* the message validate_arguments prints before sys.exit(1), "" when it returns
ValidationError(a) ==
    LET tickers == CleanTickers(a.tickers)
    IN  IF tickers = <<>> THEN "At least one ticker symbol is required"
        ELSE IF Truthy(a.weights) /\ Len(a.weights.vals) # Len(tickers)
            THEN "Number of weights must match number of tickers"
        ELSE IF Truthy(a.weights) /\ \E i \in 1..Len(a.weights.vals) :
                                         FLess(a.weights.vals[i], Zero)
            THEN "Weights cannot be negative"
        ELSE IF Truthy(a.weights) /\ FEq(FSum(a.weights.vals), Zero)
            THEN "Sum of weights cannot be zero"
        ELSE IF TruthyDate(a.start_date) /\ ~Parses(a.start_date.text)
            THEN "Invalid start date format"
        ELSE IF TruthyDate(a.end_date) /\ ~Parses(a.end_date.text)
            THEN "Invalid end date format"
        ELSE IF (TruthyDate(a.start_date) /\ ~TruthyDate(a.end_date))
                \/ (TruthyDate(a.end_date) /\ ~TruthyDate(a.start_date))
            THEN "Both --start-date and --end-date must be provided together"
        ELSE IF TruthyDate(a.start_date) /\ TruthyDate(a.end_date)
                /\ DateGeq(a.start_date.text, a.end_date.text)
            THEN "Start date must be before end date"
        ELSE IF FLess(a.risk_free_rate, Zero) \/ FLess(One, a.risk_free_rate)
            THEN "Risk-free rate should be between 0 and 1"
        ELSE IF a.output_dir = <<>> \/ Strip(a.output_dir) = <<>>
            THEN "Output directory cannot be empty"
        ELSE ""

\* validate_arguments(args): the namespace it leaves, tickers upper-cased,
\* stripped and without empty entries
validate_arguments(a) == [a EXCEPT !.tickers = CleanTickers(a.tickers)]

(***************************************************************************)
(* data_loader.py                                                          *)
(*                                                                         *)
(* A table is [columns, index, rows]: the tickers, the dates and one row   *)
(* of floats per date, NaN where a ticker has no observation.              *)
(***************************************************************************)
\* what yf.Ticker(t).history(...) does for one ticker: a history, an empty
\* frame, or an exception
Outcomes == {"ok", "empty", "error"}

\* the first trading day the provider has for a ticker: T is listed a day late
FirstDate(t) == IF t = <<"T">> THEN 2 ELSE 1

\* the provider has a closing price for ticker t on day d: T did not trade on
\* day 4
HasPrice(t, d) == FirstDate(t) <= d /\ ~(t = <<"T">> /\ d = 4)

\* the closing price the provider has for ticker t on day d
ClosePrice(t, d) ==
    IF t = <<"T">> THEN (IF d <= 2 THEN Rat(16, 1) ELSE Rat(8, 1))
    ELSE (IF d % 2 = 1 THEN Rat(8, 1) ELSE Rat(16, 1))

\* stock.history(...) can return prices: the ticker is listed by the last day
\* asked for and, when the period is used (line 57), the provider knows the token
HistoryExists(a, t, last) ==
    /\ FirstDate(t) <= last
    /\ (TruthyDate(a.start_date) /\ TruthyDate(a.end_date)) \/ a.period \in ValidPeriods

\* position of the first occurrence of x in seq, 0 when absent
FirstIndex(seq, x) ==
    IF \E i \in 1..Len(seq) : seq[i] = x
    THEN CHOOSE i \in 1..Len(seq) : seq[i] = x /\ \A j \in 1..(i - 1) : seq[j] # x
    ELSE 0

\* the keys of the dict data after the loop, in insertion order: the tickers
\* with a history, each once
RECURSIVE DataKeys(_, _, _)
DataKeys(tickers, outcome, i) ==
    IF i = 0 THEN <<>>
    ELSE LET before == DataKeys(tickers, outcome, i - 1)
         IN  IF outcome[i] = "ok" /\ FirstIndex(before, tickers[i]) = 0
             THEN Append(before, tickers[i])
             ELSE before

\* failed_tickers after the loop
FailedTickers(tickers, outcome) ==
    SelectSeq([i \in 1..Len(tickers) |-> IF outcome[i] = "ok" THEN <<>> ELSE tickers[i]],
              LAMBDA t : t # <<>>)

\* the dates of a table, ascending
RECURSIVE SortedDates(_)
SortedDates(S) ==
    IF S = {} THEN <<>>
    ELSE LET m == CHOOSE x \in S : \A y \in S : x <= y
         IN  <<m>> \o SortedDates(S \ {m})

\* pd.DataFrame(data).sort_index(): one column per key of data, the union of
\* the dates up to the last trading day of the period, NaN where a ticker has
\* no price
PriceTable(columns, last) ==
    LET dates == SortedDates({d \in 1..last :
                                 \E i \in 1..Len(columns) : HasPrice(columns[i], d)})
    IN  [columns |-> columns,
         index   |-> dates,
         rows    |-> [k \in 1..Len(dates) |->
                        [i \in 1..Len(columns) |->
                            IF HasPrice(columns[i], dates[k])
                            THEN ClosePrice(columns[i], dates[k]) ELSE NaN]]]

EmptyTable == [columns |-> <<>>, index |-> <<>>, rows |-> <<>>]

(***************************************************************************)
(* metrics.py: calculate_returns and calculate_asset_metrics               *)
(***************************************************************************)
\* Series.ffill(): the last observation before row k of column i, NaN if none
RECURSIVE Padded(_, _, _)
Padded(rows, k, i) ==
    IF k = 0 THEN NaN
    ELSE IF ~IsNaN(rows[k][i]) THEN rows[k][i]
    ELSE Padded(rows, k - 1, i)

\* what pct_change does with a missing price: pandas before 3.0 fills it with
\* the last observation (fill_method='pad'), pandas 3.0 leaves it missing
FillMethods == {"pad", "none"}

\* prices.pct_change(): row 1 is NaN, row k is filled[k] / filled[k-1] - 1
PctChange(rows, k, i, fill_method) ==
    IF k = 1 THEN NaN
    ELSE IF fill_method = "pad"
    THEN FSub(FDiv(Padded(rows, k, i), Padded(rows, k - 1, i)), One)
    ELSE FSub(FDiv(rows[k][i], rows[k - 1][i]), One)

\* the positions 1..n whose flag is set, ascending
RECURSIVE KeepRows(_, _)
KeepRows(flags, n) ==
    IF n = 0 THEN <<>>
    ELSE LET before == KeepRows(flags, n - 1)
         IN  IF flags[n] THEN Append(before, n) ELSE before

\* calculate_returns(prices): pct_change() then dropna()
calculate_returns(p, fill_method) ==
    LET n    == Len(p.rows)
        m    == Len(p.columns)
        pct  == [k \in 1..n |-> [i \in 1..m |-> PctChange(p.rows, k, i, fill_method)]]
        kept == KeepRows([k \in 1..n |-> \A i \in 1..m : ~IsNaN(pct[k][i])], n)
    IN  [columns |-> p.columns,
         index   |-> [j \in 1..Len(kept) |-> p.index[kept[j]]],
         rows    |-> [j \in 1..Len(kept) |-> pct[kept[j]]]]

\* returns[ticker]: one column of a table
Column(table, i) == [k \in 1..Len(table.rows) |-> table.rows[k][i]]

\* metric * 100
Pct(m) ==
    IF m.kind = "lit" THEN Lit(FMul(m.q, Rat(100, 1)))
    ELSE [m EXCEPT !.kind = m.kind \o "*100"]

\* Python's None
None == [none |-> TRUE]

\* the dictionary calculate_asset_metrics builds
AssetMetricsRecord(r, ticker, rf) ==
    [Ticker        |-> ticker,
     Cumulative    |-> FMul(calculate_cumulative_return(r), Rat(100, 1)),
     Annualized    |-> Pct(calculate_annualized_return(r)),
     Volatility    |-> Pct(calculate_annualized_volatility(r)),
     Sharpe        |-> calculate_sharpe_ratio(r, rf),
     Drawdown      |-> FMul(calculate_maximum_drawdown(r), Rat(100, 1)),
     TradingDays   |-> Len(r)]

calculate_asset_metrics_NoEmptyGuard(r, ticker, rf) == AssetMetricsRecord(r, ticker, rf)

\* calculate_asset_metrics(returns, ticker, risk_free_rate)
calculate_asset_metrics(r, ticker, rf) ==
    IF Len(r) = 0 THEN None ELSE AssetMetricsRecord(r, ticker, rf)

(***************************************************************************)
(* portfolio.py: calculate_portfolio_metrics                               *)
(***************************************************************************)
\* zip stops at the shorter of its arguments
Min(a, b) == IF a < b THEN a ELSE b

\* dict(zip(keys, values)) over the first n pairs, in insertion order: a key
\* that comes again keeps its place and takes the later value
RECURSIVE DictOfZip(_, _, _)
DictOfZip(keys, values, n) ==
    IF n = 0 THEN <<>>
    ELSE LET before == DictOfZip(keys, values, n - 1)
             at     == FirstIndex([j \in 1..Len(before) |-> before[j][1]], keys[n])
         IN  IF at = 0 THEN Append(before, <<keys[n], values[n]>>)
             ELSE [before EXCEPT ![at] = <<keys[n], values[n]>>]

calculate_portfolio_metrics_RawWeights(table, w, rf) ==
    LET n  == Len(table.columns)
        pr == calculate_portfolio_returns(table.rows, n, w)
        nw == IF w.given /\ Len(w.vals) = n THEN Returned(w.vals) ELSE validate_weights(w, n)
    IN  IF pr.raised # "" THEN pr
        ELSE IF nw.raised # "" THEN nw
        ELSE Returned(
            [Cumulative |-> FMul(calculate_cumulative_return(pr.value), Rat(100, 1)),
             Annualized |-> Pct(calculate_annualized_return(pr.value)),
             Volatility |-> Pct(calculate_annualized_volatility(pr.value)),
             Sharpe     |-> calculate_sharpe_ratio(pr.value, rf),
             Drawdown   |-> FMul(calculate_maximum_drawdown(pr.value), Rat(100, 1)),
             Weights    |-> DictOfZip(table.columns, nw.value, Min(n, Len(nw.value)))])

\* calculate_portfolio_metrics(returns, weights, risk_free_rate): the record,
\* or the ValueError of validate_weights
calculate_portfolio_metrics(table, w, rf) ==
    LET n  == Len(table.columns)
        pr == calculate_portfolio_returns(table.rows, n, w)
        nw == validate_weights(w, n)
    IN  IF pr.raised # "" THEN pr
        ELSE IF nw.raised # "" THEN nw
        ELSE Returned(
            [Cumulative |-> FMul(calculate_cumulative_return(pr.value), Rat(100, 1)),
             Annualized |-> Pct(calculate_annualized_return(pr.value)),
             Volatility |-> Pct(calculate_annualized_volatility(pr.value)),
             Sharpe     |-> calculate_sharpe_ratio(pr.value, rf),
             Drawdown   |-> FMul(calculate_maximum_drawdown(pr.value), Rat(100, 1)),
             Weights    |-> DictOfZip(table.columns, nw.value, Min(n, Len(nw.value)))])

(***************************************************************************)
(* Initial values of the variables a specification does not use.           *)
(***************************************************************************)
NoMetrics ==
    [called |-> FALSE, cumulative |-> Zero, annualized |-> Lit(Zero),
     volatility |-> Lit(Zero), sharpe |-> Lit(Zero), drawdown |-> Zero,
     rolling |-> <<>>]

NoPortfolioMetrics ==
    [Cumulative |-> Zero, Annualized |-> Lit(Zero), Volatility |-> Lit(Zero),
     Sharpe |-> Lit(Zero), Drawdown |-> Zero, Weights |-> <<>>]

NoArgs ==
    [tickers |-> <<>>, weights |-> NoList, start_date |-> NoDate, end_date |-> NoDate,
     period |-> DefaultPeriod, risk_free_rate |-> Zero, output_dir |-> <<>>]

IdleWeights == weights = NoList /\ num_tickers = 1 /\ vw_ret = NotCalled
IdlePortfolio == returns = <<>> /\ ncols = 0 /\ pr_ret = NotCalled
IdleMetrics ==
    /\ series = <<>> /\ risk_free_rate = Zero /\ window = 1 /\ m_ret = NoMetrics
    /\ rounding = Zero

\* the memory of a process that has not computed anything
EmptyMemory ==
    /\ args = argv
    /\ prices = EmptyTable
    /\ failed_tickers = <<>>
    /\ returns_df = EmptyTable
    /\ individual_metrics = <<>>
    /\ portfolio_returns = <<>>
    /\ portfolio_metrics = NoPortfolioMetrics

IdleMain ==
    /\ argv = NoArgs
    /\ EmptyMemory
    /\ pc = "exited"
    /\ files = {}
    /\ summary_csv = <<>>
    /\ console = <<>>
    /\ download_calls = 0
    /\ exit_status = 0
    /\ exit_cause = ""

(***************************************************************************)
(* One call of validate_weights.                                           *)
(***************************************************************************)
InitWeights ==
    /\ weights \in {NoList} \cup {List(s) : s \in SeqsOf(WeightVals, 0, MaxNumTickers)}
    /\ num_tickers \in 1..MaxNumTickers
    /\ vw_ret = NotCalled
    /\ IdlePortfolio
    /\ IdleMetrics
    /\ IdleMain

CallValidateWeights ==
    /\ ~vw_ret.called
    /\ vw_ret' = validate_weights(weights, num_tickers)
    /\ UNCHANGED <<weights, num_tickers, portfolioVars, metricsVars, mainVars>>

NextWeights == CallValidateWeights

SpecWeights == InitWeights /\ [][NextWeights]_vars

(***************************************************************************)
(* One call of calculate_portfolio_returns.                                *)
(***************************************************************************)
InitPortfolio ==
    /\ ncols \in 1..MaxCols
    /\ returns \in SeqsOf([1..ncols -> ReturnVals], 0, MaxRows)
    /\ weights \in {NoList} \cup {List(s) : s \in SeqsOf(WeightVals, 1, MaxCols)}
    /\ num_tickers = ncols
    /\ vw_ret = NotCalled
    /\ pr_ret = NotCalled
    /\ IdleMetrics
    /\ IdleMain

CallPortfolioReturns ==
    /\ ~pr_ret.called
    /\ pr_ret' = calculate_portfolio_returns(returns, ncols, weights)
    /\ UNCHANGED <<weightsVars, returns, ncols, metricsVars, mainVars>>

NextPortfolio == CallPortfolioReturns

SpecPortfolio == InitPortfolio /\ [][NextPortfolio]_vars

(***************************************************************************)
(* One call of each metric function on the same series.                    *)
(***************************************************************************)
InitMetrics ==
    /\ series \in SeqsOf(SeriesVals, 0, MaxLen)
    /\ risk_free_rate \in RfVals
    /\ window \in 1..MaxWindow
    /\ rounding \in {Zero, Ulp}
    /\ m_ret = NoMetrics
    /\ IdleWeights
    /\ IdlePortfolio
    /\ IdleMain

CallMetrics ==
    /\ ~m_ret.called
    /\ m_ret' = [called     |-> TRUE,
                 cumulative |-> calculate_cumulative_return(series),
                 annualized |-> calculate_annualized_return(series),
                 volatility |-> calculate_annualized_volatility(series),
                 sharpe     |-> calculate_sharpe_ratio(series, risk_free_rate),
                 drawdown   |-> calculate_maximum_drawdown(series),
                 rolling    |-> calculate_rolling_volatility(series, window)]
    /\ UNCHANGED <<weightsVars, portfolioVars, series, risk_free_rate, window, rounding,
                   mainVars>>

NextMetrics == CallMetrics

SpecMetrics == InitMetrics /\ [][NextMetrics]_vars

(***************************************************************************)
(* main.py: one run of main().                                             *)
(***************************************************************************)
CSV_FILE == "portfolio_summary.csv"
PNG_FILE == "portfolio_analysis.png"

\* the statuses main and the functions it calls pass to sys.exit
EXIT_VALIDATION == 1
EXIT_NO_DATA == 1
EXIT_INTERRUPT_SIGINT == 128 + 2
EXIT_INTERRUPT == 1
EXIT_ERROR == 1

\* command lines that vary the tickers, the weights and the dates and leave
\* the other options at their defaults
PortfolioCommandLines ==
    [tickers        : SeqsOf(TickerTokens, 1, MaxTickers),
     weights        : {NoList} \cup {List(s) : s \in SeqsOf(CliWeightVals, 1, MaxTickers)},
     start_date     : DateTokens,
     end_date       : DateTokens,
     period         : {DefaultPeriod},
     risk_free_rate : {DefaultRf},
     output_dir     : {<<"o", "u", "t">>}]

\* command lines for one or two good tickers without weights that vary the
\* dates, the period, the risk-free rate and the output directory
OptionCommandLines ==
    [tickers        : {<<<<"F">>>>, <<<<"F">>, <<"T">>>>},
     weights        : {NoList},
     start_date     : DateTokens,
     end_date       : DateTokens,
     period         : PeriodTokens,
     risk_free_rate : CliRfVals,
     output_dir     : OutputDirs]

Init ==
    /\ argv \in PortfolioCommandLines \cup OptionCommandLines
    /\ EmptyMemory
    /\ pc = "parse"
    /\ files = {}
    /\ summary_csv = <<>>
    /\ console = <<>>
    /\ download_calls = 0
    /\ exit_status = -1
    /\ exit_cause = ""
    /\ IdleWeights
    /\ IdlePortfolio
    /\ IdleMetrics

\* the process ends after printing messages: its memory is gone, its files
\* and its output stay
ExitPrinting(status, cause, messages) ==
    /\ pc' = "exited"
    /\ exit_status' = status
    /\ exit_cause' = cause
    /\ console' = console \o messages
    /\ args' = argv
    /\ prices' = EmptyTable
    /\ failed_tickers' = <<>>
    /\ returns_df' = EmptyTable
    /\ individual_metrics' = <<>>
    /\ portfolio_returns' = <<>>
    /\ portfolio_metrics' = NoPortfolioMetrics
    /\ UNCHANGED argv

Exit(status, cause, message) == ExitPrinting(status, cause, <<message>>)

\* parse_arguments(): validate_arguments, then print_configuration
ParseArguments ==
    /\ pc = "parse"
    /\ IF ValidationError(argv) # ""
       THEN /\ Exit(EXIT_VALIDATION, "validate_arguments", ValidationError(argv))
            /\ UNCHANGED <<files, summary_csv, download_calls>>
       ELSE /\ args' = validate_arguments(argv)
            /\ console' = Append(console, "STOCK PORTFOLIO ANALYZER")
            /\ pc' = "download"
            /\ UNCHANGED <<argv, prices, failed_tickers, returns_df, individual_metrics,
                           portfolio_returns, portfolio_metrics, files, summary_csv, download_calls,
                           exit_status, exit_cause>>
    /\ UNCHANGED <<weightsVars, portfolioVars, metricsVars>>

\* what the loop of download_stock_data prints for the tickers that failed,
\* in the order of the tickers
FetchMessages(outcome) ==
    SelectSeq([i \in 1..Len(outcome) |->
                  IF outcome[i] = "empty" THEN "No data found"
                  ELSE IF outcome[i] = "error" THEN "Error: download raised"
                  ELSE ""],
              LAMBDA m : m # "")

\* download_stock_data(args.tickers, ...)
DownloadStockData ==
    /\ pc = "download"
    /\ download_calls' = download_calls + 1
    /\ \E last \in 1..MaxDates :
       \E outcome \in {o \in [1..Len(args.tickers) -> Outcomes] :
                          \A i \in 1..Len(args.tickers) :
                              o[i] = "ok" => HistoryExists(args, args.tickers[i], last)} :
          LET keys == DataKeys(args.tickers, outcome, Len(args.tickers))
              failed == FailedTickers(args.tickers, outcome)
              fetched == <<"Downloading data">> \o FetchMessages(outcome)
          IN  IF keys = <<>>
              THEN /\ ExitPrinting(EXIT_NO_DATA, "download_stock_data",
                                   Append(fetched, "No data could be downloaded for any ticker"))
                   /\ UNCHANGED <<files, summary_csv>>
              ELSE /\ prices' = PriceTable(keys, last)
                   /\ failed_tickers' = failed
                   /\ console' = IF failed = <<>> THEN console \o fetched
                                 ELSE console \o Append(fetched,
                                                        "Warning: Failed to download data")
                   /\ pc' = "returns"
                   /\ UNCHANGED <<argv, args, returns_df, individual_metrics,
                                  portfolio_returns, portfolio_metrics, files, summary_csv,
                                  exit_status, exit_cause>>
    /\ UNCHANGED <<weightsVars, portfolioVars, metricsVars>>

\* Step 2: returns = calculate_returns(prices)
CalculateReturns ==
    /\ pc = "returns"
    /\ \E fill_method \in FillMethods : returns_df' = calculate_returns(prices, fill_method)
    /\ pc' = "asset_metrics"
    /\ UNCHANGED <<argv, args, prices, failed_tickers, individual_metrics,
                   portfolio_returns, portfolio_metrics, files, summary_csv, console, download_calls,
                   exit_status, exit_cause>>
    /\ UNCHANGED <<weightsVars, portfolioVars, metricsVars>>

\* the records main appends: 'if metrics:' skips None
AssetRecords(table, rf) ==
    LET all == [i \in 1..Len(table.columns) |->
                   calculate_asset_metrics(Column(table, i), table.columns[i], rf)]
    IN  SelectSeq(all, LAMBDA m : m # None)

\* Step 3: the loop over prices.columns
AssetMetrics ==
    /\ pc = "asset_metrics"
    /\ individual_metrics' = AssetRecords(returns_df, args.risk_free_rate)
    /\ pc' = "portfolio"
    /\ UNCHANGED <<argv, args, prices, failed_tickers, returns_df,
                   portfolio_returns, portfolio_metrics, files, summary_csv, console, download_calls,
                   exit_status, exit_cause>>
    /\ UNCHANGED <<weightsVars, portfolioVars, metricsVars>>

\* Step 4: calculate_portfolio_returns, then calculate_portfolio_metrics; a
\* ValueError of validate_weights is caught by main's except Exception
PortfolioMetrics ==
    /\ pc = "portfolio"
    /\ LET pr == calculate_portfolio_returns(returns_df.rows, Len(returns_df.columns),
                                             args.weights)
           pm == calculate_portfolio_metrics(returns_df, args.weights, args.risk_free_rate)
       IN  IF pr.raised # ""
           THEN /\ Exit(EXIT_ERROR, "ValueError", pr.raised)
                /\ UNCHANGED <<files, summary_csv, download_calls>>
           ELSE IF pm.raised # ""
           THEN /\ Exit(EXIT_ERROR, "ValueError", pm.raised)
                /\ UNCHANGED <<files, summary_csv, download_calls>>
           ELSE /\ portfolio_returns' = pr.value
                /\ portfolio_metrics' = pm.value
                /\ pc' = "print"
                /\ UNCHANGED <<argv, args, prices, failed_tickers, returns_df,
                               individual_metrics, files, summary_csv, console, download_calls,
                               exit_status, exit_cause>>
    /\ UNCHANGED <<weightsVars, portfolioVars, metricsVars>>

SummaryRows_CountRecords(records, pm) ==
    Append(records,
           [Ticker      |-> <<"P", "O", "R", "T", "F", "O", "L", "I", "O">>,
            Cumulative  |-> pm.Cumulative,
            Annualized  |-> pm.Annualized,
            Volatility  |-> pm.Volatility,
            Sharpe      |-> pm.Sharpe,
            Drawdown    |-> pm.Drawdown,
            TradingDays |-> Len(records)])

\* the ticker of the portfolio summary row
PORTFOLIO == <<"P", "O", "R", "T", "F", "O", "L", "I", "O">>

\* summary_data in save_results_to_csv: the asset records, then the portfolio
\* row with the first record's 'Trading Days', or 0 without records
SummaryRows(records, pm) ==
    Append(records,
           [Ticker      |-> PORTFOLIO,
            Cumulative  |-> pm.Cumulative,
            Annualized  |-> pm.Annualized,
            Volatility  |-> pm.Volatility,
            Sharpe      |-> pm.Sharpe,
            Drawdown    |-> pm.Drawdown,
            TradingDays |-> IF records # <<>> THEN records[1].TradingDays ELSE 0])

\* Step 5: print_results_table
PrintResults ==
    /\ pc = "print"
    /\ console' = Append(console, "PORTFOLIO ANALYSIS RESULTS")
    /\ pc' = "csv"
    /\ UNCHANGED <<argv, memoryVars, files, summary_csv, download_calls, exit_status, exit_cause>>
    /\ UNCHANGED <<weightsVars, portfolioVars, metricsVars>>

SaveResultsToCsv_BeforePortfolio ==
    /\ pc = "portfolio"
    /\ CSV_FILE \notin files
    /\ files' = files \cup {CSV_FILE}
    /\ summary_csv' = SummaryRows(individual_metrics, portfolio_metrics)
    /\ console' = Append(console, "Summary saved")
    /\ UNCHANGED <<argv, memoryVars, pc, download_calls, exit_status, exit_cause>>
    /\ UNCHANGED <<weightsVars, portfolioVars, metricsVars>>

\* Step 6: save_results_to_csv
SaveResultsToCsv ==
    /\ pc = "csv"
    /\ files' = files \cup {CSV_FILE}
    /\ summary_csv' = SummaryRows(individual_metrics, portfolio_metrics)
    /\ console' = Append(console, "Summary saved")
    /\ pc' = "charts"
    /\ UNCHANGED <<argv, memoryVars, download_calls, exit_status, exit_cause>>
    /\ UNCHANGED <<weightsVars, portfolioVars, metricsVars>>

\* Step 7: create_visualizations
CreateVisualizations ==
    /\ pc = "charts"
    /\ files' = files \cup {PNG_FILE}
    /\ UNCHANGED summary_csv
    /\ console' = Append(console, "Chart saved")
    /\ pc' = "complete"
    /\ UNCHANGED <<argv, memoryVars, download_calls, exit_status, exit_cause>>
    /\ UNCHANGED <<weightsVars, portfolioVars, metricsVars>>

\* the last print, and main returns
Complete ==
    /\ pc = "complete"
    /\ Exit(0, "return", "Analysis complete!")
    /\ UNCHANGED <<files, summary_csv, download_calls>>
    /\ UNCHANGED <<weightsVars, portfolioVars, metricsVars>>

OutputFails_Ignored ==
    /\ pc \in {"csv", "charts"}
    /\ pc' = IF pc = "csv" THEN "charts" ELSE "complete"
    /\ UNCHANGED <<argv, memoryVars, files, summary_csv, console, download_calls, exit_status, exit_cause>>
    /\ UNCHANGED <<weightsVars, portfolioVars, metricsVars>>

\* os.makedirs, to_csv or savefig raises: main's except Exception
OutputFails ==
    /\ pc \in {"csv", "charts"}
    /\ Exit(EXIT_ERROR, "Exception", "ERROR")
    /\ UNCHANGED <<files, summary_csv, download_calls>>
    /\ UNCHANGED <<weightsVars, portfolioVars, metricsVars>>

\* Ctrl-C while main runs: main's except KeyboardInterrupt
KeyboardInterrupt ==
    /\ pc \notin {"exited"}
    /\ Exit(EXIT_INTERRUPT, "KeyboardInterrupt", "Analysis interrupted by user.")
    /\ UNCHANGED <<files, summary_csv, download_calls>>
    /\ UNCHANGED <<weightsVars, portfolioVars, metricsVars>>

Next ==
    \/ ParseArguments
    \/ DownloadStockData
    \/ CalculateReturns
    \/ AssetMetrics
    \/ PortfolioMetrics
    \/ PrintResults
    \/ SaveResultsToCsv
    \/ CreateVisualizations
    \/ Complete
    \/ OutputFails
    \/ KeyboardInterrupt

Spec == Init /\ [][Next]_vars

(***************************************************************************)
(* Claims.                                                                 *)
(***************************************************************************)
FLeq(x, y) == FLess(x, y) \/ FEq(x, y)

\* the weight lists validate_weights accepts: right length, no negative entry,
\* positive sum
Accepted(w, n) ==
    /\ w.given
    /\ Len(w.vals) = n
    /\ \A i \in 1..Len(w.vals) : FLeq(Zero, w.vals[i])
    /\ FLess(Zero, FSum(w.vals))

\* C1: for every accepted weight list the call returns, the result has the
\* length of the input, every entry is >= 0, the entries sum to 1, and any two
\* entries are in the ratio of the corresponding inputs (so each is w_i / sum(w)).
C1_Normalized ==
    (vw_ret.called /\ Accepted(weights, num_tickers)) =>
        /\ vw_ret.raised = ""
        /\ Len(vw_ret.value) = Len(weights.vals)
        /\ \A i \in 1..Len(vw_ret.value) : FLeq(Zero, vw_ret.value[i])
        /\ FSum(vw_ret.value) = One
        /\ \A i, j \in 1..Len(vw_ret.value) :
              FMul(vw_ret.value[i], weights.vals[j])
                  = FMul(vw_ret.value[j], weights.vals[i])

\* three unequal weights that do not sum to 1 have been normalized
C1_Witness ==
    /\ vw_ret.called
    /\ Accepted(weights, num_tickers)
    /\ Len(weights.vals) = 3
    /\ weights.vals[1] # weights.vals[2]
    /\ FSum(weights.vals) # One
    /\ vw_ret.value[1] # weights.vals[1]

\* C2: the call raises exactly when weights are given and their count differs
\* from num_tickers, or some entry is negative, or they sum to zero; the count
\* is checked first, then the signs, then the sum.
C2_RaisesExactly ==
    vw_ret.called =>
        LET w == weights.vals
            badCount == Len(w) # num_tickers
            negative == \E i \in 1..Len(w) : FLess(w[i], Zero)
            zeroSum  == FSum(w) = Zero
        IN  /\ (vw_ret.raised # "") <=> (weights.given /\ (badCount \/ negative \/ zeroSum))
            /\ (weights.given /\ badCount) =>
                  vw_ret.raised = "Number of weights must match number of tickers"
            /\ (weights.given /\ ~badCount /\ negative) =>
                  vw_ret.raised = "Weights cannot be negative"
            /\ (weights.given /\ ~badCount /\ ~negative /\ zeroSum) =>
                  vw_ret.raised = "Sum of weights cannot be zero"

\* a list of the wrong length that also holds a negative entry was rejected
C2_Witness ==
    /\ vw_ret.called
    /\ weights.given
    /\ Len(weights.vals) # num_tickers
    /\ \E i \in 1..Len(weights.vals) : FLess(weights.vals[i], Zero)
    /\ vw_ret.raised # ""

\* C3: with weights None the call returns num_tickers entries, each 1/num_tickers.
C3_EqualWeights ==
    (vw_ret.called /\ ~weights.given) =>
        /\ vw_ret.raised = ""
        /\ Len(vw_ret.value) = num_tickers
        /\ \A i \in 1..num_tickers :
              /\ IsFinite(vw_ret.value[i])
              /\ vw_ret.value[i][1] * num_tickers = vw_ret.value[i][2]

\* None with three tickers gave three weights
C3_Witness ==
    /\ vw_ret.called
    /\ ~weights.given
    /\ num_tickers = 3
    /\ Len(vw_ret.value) = 3

\* the weight the claim assigns to column i: w_i / sum(w), or 1/n without weights
C4_Weight(i) ==
    IF weights.given THEN FDiv(weights.vals[i], FSum(weights.vals))
    ELSE Rat(1, ncols)

\* sum over columns 1..k of weight * return on row t, a missing return counting 0
RECURSIVE C4_RowValue(_, _)
C4_RowValue(t, k) ==
    IF k = 0 THEN Zero
    ELSE FAdd(C4_RowValue(t, k - 1),
              IF IsNaN(returns[t][k]) THEN Zero
              ELSE FMul(C4_Weight(k), returns[t][k]))

\* C4: the portfolio series has one value per row of the returns table, the sum
\* over the columns of normalized_weight_i * return_i of that row; a missing
\* return contributes zero and the other weights are not rescaled.
C4_WeightedSum ==
    (pr_ret.called /\ pr_ret.raised = "") =>
        /\ Len(pr_ret.value) = Len(returns)
        /\ \A t \in 1..Len(returns) : pr_ret.value[t] = C4_RowValue(t, ncols)

\* two columns with unequal weights, and a row where exactly one return is missing
C4_Witness ==
    /\ pr_ret.called
    /\ pr_ret.raised = ""
    /\ ncols = 2
    /\ weights.given
    /\ weights.vals[1] # weights.vals[2]
    /\ Len(returns) = 2
    /\ \E t \in 1..2 : IsNaN(returns[t][1]) /\ ~IsNaN(returns[t][2])
    /\ \E t \in 1..2 : ~IsNaN(returns[t][1]) /\ ~IsNaN(returns[t][2])

\* C10: on an empty series the five scalar metrics are 0.0 and the rolling
\* volatility is an empty series.
C10_EmptySeries ==
    (m_ret.called /\ series = <<>>) =>
        /\ m_ret.cumulative = Zero
        /\ m_ret.annualized = Lit(Zero)
        /\ m_ret.volatility = Lit(Zero)
        /\ m_ret.sharpe = Lit(Zero)
        /\ m_ret.drawdown = Zero
        /\ m_ret.rolling = <<>>

\* the metric functions ran on an empty series with a positive risk-free rate
C10_Witness ==
    /\ m_ret.called
    /\ series = <<>>
    /\ FLess(Zero, risk_free_rate)

Running == pc \notin {"parse", "exited"}
Printed(message) == \E i \in 1..Len(console) : console[i] = message

Distinct(s) == \A i, j \in 1..Len(s) : i # j => s[i] # s[j]

\* C5: a run for distinct symbols in which some ticker failed to download and
\* another succeeded is not ended by the pipeline's weight validation, with or
\* without --weights;
\* a run that download_stock_data ends has a non-zero status and wrote nothing.
C5_PartialFailureCompletes ==
    /\ (/\ pc = "exited"
        /\ Printed("Warning: Failed to download data")
        /\ Distinct(CleanTickers(argv.tickers)))
          => exit_cause # "ValueError"
    /\ (pc = "exited" /\ exit_cause = "download_stock_data")
          => (exit_status # 0 /\ files = {})

\* the symbols typed that are not blank
NonBlank(tickers) == SelectSeq(tickers, LAMBDA t : \E k \in 1..Len(t) : t[k] # " ")

\* a date argument that is given and is not a date in YYYY-MM-DD form
Malformed(d) ==
    d.given /\ ~(/\ Len(d.text) = 3
                 /\ d.text[2] \in 1..12
                 /\ d.text[3] \in 1..31
                 /\ d.text # <<2023, 2, 30>>)

\* the invalid argument combinations C6 lists
C6_Invalid(a) ==
    \/ a.weights.given /\ Len(a.weights.vals) # Len(NonBlank(a.tickers))
    \/ a.weights.given /\ \E i \in 1..Len(a.weights.vals) : a.weights.vals[i][1] < 0
    \/ a.weights.given /\ FSum(a.weights.vals) = Zero
    \/ Malformed(a.start_date)
    \/ Malformed(a.end_date)
    \/ a.start_date.given # a.end_date.given
    \/ /\ a.start_date.given /\ a.end_date.given
       /\ ~Malformed(a.start_date) /\ ~Malformed(a.end_date)
       /\ DateGeq(a.start_date.text, a.end_date.text)
    \/ a.risk_free_rate[1] < 0
    \/ a.risk_free_rate[1] > a.risk_free_rate[2]
    \/ \A k \in 1..Len(a.output_dir) : a.output_dir[k] = " "

\* C6: with any of the listed invalid arguments validate_arguments ends the
\* process with a non-zero status and download_stock_data is never called; a
\* risk-free rate of exactly 0 or 1 is not a reason to reject.
C6_InvalidArgumentsExit ==
    /\ C6_Invalid(argv) =>
          /\ download_calls = 0
          /\ pc # "parse" => (pc = "exited" /\ exit_status # 0)
    /\ (pc = "exited" /\ exit_cause = "validate_arguments"
          /\ argv.risk_free_rate \in {Zero, One})
          => C6_Invalid([argv EXCEPT !.risk_free_rate = Rat(1, 2)])
             \/ NonBlank(argv.tickers) = <<>>

\* C7: once validate_arguments has returned, no symbol occurs twice in args.tickers.
C7_NoDuplicateTickers ==
    Running => Distinct(args.tickers)

ConfigCauses == {"validate_arguments", "ValueError"}

\* C8: a run ended by a configuration error, whether validate_arguments or
\* validate_weights in the pipeline detected it, has written neither
\* portfolio_summary.csv nor portfolio_analysis.png.
C8_NoOutputOnConfigError ==
    (pc = "exited" /\ exit_cause \in ConfigCauses) =>
        (CSV_FILE \notin files /\ PNG_FILE \notin files)

\* a run got through the download and was then ended by validate_weights
C8_Witness ==
    /\ pc = "exited"
    /\ exit_cause = "ValueError"
    /\ download_calls = 1
    /\ files = {}

C11_SharpeZeroGuard ==
    m_ret.called =>
        m_ret.sharpe = IF m_ret.volatility = Lit(Zero) THEN Lit(Zero)
                       ELSE SharpeQuotient(m_ret.annualized, risk_free_rate, m_ret.volatility)

\* a series of equal non-zero returns whose volatility came out as exactly 0,
\* with an annualized return different from the risk-free rate
C11_Witness ==
    /\ m_ret.called
    /\ IsConstant(series)
    /\ m_ret.volatility = Lit(Zero)
    /\ m_ret.annualized # Lit(risk_free_rate)
    /\ m_ret.sharpe = Lit(Zero)

\* the sign of a float: 1, 0 or -1, and 2 for NaN
SignOf(x) == IF IsNaN(x) THEN 2 ELSE IF x[1] > 0 THEN 1 ELSE IF x[1] < 0 THEN -1 ELSE 0

\* the sign of b ** (252 / days) - 1 - rf, 2 where the bounds below do not
\* decide it: for 0 < b < 1 the power is below 1 <= 1 + rf; for b > 1 the power
\* is at least 1 + (252 / days) * (b - 1)
PowExcessSign(b, days, rf) ==
    IF days = TRADING_DAYS_PER_YEAR THEN SignOf(FSub(FSub(b, One), rf))
    ELSE IF FLess(Zero, b) /\ FLess(b, One) /\ ~FLess(rf, Zero) THEN -1
    ELSE IF /\ FLess(One, b)
            /\ FLess(FMul(rf, Rat(days, 1)),
                     FMul(Rat(TRADING_DAYS_PER_YEAR, 1), FSub(b, One))) THEN 1
    ELSE 2

\* the sign of annualized return a minus rf
ExcessSign(a, rf) ==
    IF a.kind = "lit" THEN SignOf(FSub(a.q, rf))
    ELSE IF a.kind = "ann" THEN PowExcessSign(a.base, a.days, rf)
    ELSE 2

\* the sign of a Sharpe ratio
SharpeSign(m) ==
    IF m.kind = "lit" THEN SignOf(m.q)
    ELSE IF m.kind = "sharpe" /\ FLess(Zero, m.sq) THEN PowExcessSign(m.base, m.days, m.rf)
    ELSE 2

\* two or more observations, all the same value
C12_ConstantSeries ==
    /\ m_ret.called
    /\ Len(series) >= 2
    /\ \A i \in 1..Len(series) : series[i] = series[1]

C13_DrawdownNonPositive ==
    (m_ret.called /\ Len(series) >= 1) =>
        LET V == CumProd(series)
        IN  /\ FLeq(m_ret.drawdown, Zero)
            /\ (\A t \in 1..Len(series) : FLeq(Zero, series[t])) => m_ret.drawdown = Zero
            /\ (\E t \in 1..Len(series) : \E u \in 1..(t - 1) : FLess(V[t], V[u]))
                  => FLess(m_ret.drawdown, Zero)

\* a volatility that is a number >= 0
DefinedNonNegative(v) ==
    \/ v.kind = "lit" /\ ~IsNaN(v.q) /\ FLeq(Zero, v.q)
    \/ v.kind = "sqrt" /\ ~IsNaN(v.sq) /\ FLeq(Zero, v.sq)

\* C14: on every non-empty series, a series of one observation included,
\* calculate_annualized_volatility returns a defined value >= 0.
C14_VolatilityDefined ==
    (m_ret.called /\ Len(series) >= 1) => DefinedNonNegative(m_ret.volatility)

\* main holds the table calculate_returns returned
ReturnsComputed == pc \in {"asset_metrics", "portfolio", "print", "csv", "charts", "complete"}

\* the price observations of column i of the price table
Observations(i) == {k \in 1..Len(prices.rows) : ~IsNaN(prices.rows[k][i])}

\* C15: the return series of every asset of the price table has one entry per
\* price observation of the asset after its first, each p[t] / p[t-1] - 1, and
\* is empty for an asset with 0 or 1 observations.
C15_ReturnsPerAsset ==
    ReturnsComputed =>
        \A i \in 1..Len(prices.columns) :
            /\ Len(returns_df.rows) =
                  IF Observations(i) = {} THEN 0 ELSE Cardinality(Observations(i)) - 1
            /\ \A j \in 1..Len(returns_df.rows) :
                  \E k \in Observations(i) :
                      /\ k - 1 \in Observations(i)
                      /\ prices.index[k] = returns_df.index[j]
                      /\ returns_df.rows[j][i] =
                            FSub(FDiv(prices.rows[k][i], prices.rows[k - 1][i]), One)

\* main holds the series calculate_portfolio_returns returned
PortfolioComputed == pc \in {"print", "csv", "charts", "complete"}

\* asset i has a return on date d: a price on d and a price on an earlier date
HasReturn(i, d) ==
    \E k \in Observations(i) :
        /\ prices.index[k] = d
        /\ \E u \in Observations(i) : u < k

\* C16: the portfolio return series has one entry per date of the returns
\* table, and a date is there only if every asset of the price table has a
\* return on that date.
C16_CommonDatesOnly ==
    PortfolioComputed =>
        /\ Len(portfolio_returns) = Len(returns_df.index)
        /\ \A j \in 1..Len(returns_df.index) :
              \A i \in 1..Len(prices.columns) : HasReturn(i, returns_df.index[j])

\* main is past the loop over prices.columns
AssetLoopDone == pc \in {"portfolio", "print", "csv", "charts", "complete"}

AssetRecordFields ==
    {"Ticker", "Cumulative", "Annualized", "Volatility", "Sharpe", "Drawdown", "TradingDays"}

\* C17: calculate_asset_metrics returns None exactly for an empty return
\* series and otherwise a record of the ticker, the five statistics and the
\* observation count; main keeps the records that are not None, in column
\* order, and its next step after the loop is the portfolio step.
C17_NoneWhenEmpty ==
    /\ [](AssetLoopDone =>
            LET result == [i \in 1..Len(returns_df.columns) |->
                              calculate_asset_metrics(Column(returns_df, i),
                                                      returns_df.columns[i],
                                                      args.risk_free_rate)]
            IN  /\ \A i \in 1..Len(result) :
                      /\ result[i] = None <=> Len(returns_df.rows) = 0
                      /\ result[i] # None =>
                            /\ DOMAIN result[i] = AssetRecordFields
                            /\ result[i].Ticker = prices.columns[i]
                            /\ result[i].TradingDays = Len(returns_df.rows)
                /\ individual_metrics = SelectSeq(result, LAMBDA m : m # None)
                /\ \A i \in 1..Len(individual_metrics) :
                      individual_metrics[i].TradingDays > 0)
    /\ [][(pc = "asset_metrics" /\ pc' # "asset_metrics")
             => (pc' = "portfolio" \/ exit_cause' = "KeyboardInterrupt")]_vars

\* every asset of the run had an empty return series, main kept no record,
\* and the portfolio step was taken
C17_Witness ==
    /\ pc = "print"
    /\ Len(prices.columns) = 2
    /\ Len(returns_df.rows) = 0
    /\ individual_metrics = <<>>

\* C18: a --period token that is not one of the listed ones ends the process
\* with a non-zero status before download_stock_data is called.
C18_PeriodValidated ==
    argv.period \notin ValidPeriods =>
        /\ download_calls = 0
        /\ pc # "parse" => (pc = "exited" /\ exit_status # 0)

\* message a was printed before message b
PrintedBefore(a, b) ==
    \E i, j \in 1..Len(console) : i < j /\ console[i] = a /\ console[j] = b

\* the order of the steps of main
StepOrder ==
    {<<"parse", "download">>, <<"download", "returns">>, <<"returns", "asset_metrics">>,
     <<"asset_metrics", "portfolio">>, <<"portfolio", "print">>, <<"print", "csv">>,
     <<"csv", "charts">>, <<"charts", "complete">>}

\* 'Analysis complete!' stands at the end of a run that went through every step
CompleteOnlyAfterAllSteps ==
    Printed("Analysis complete!") =>
        /\ pc = "exited" /\ exit_cause = "return" /\ exit_status = 0
        /\ download_calls = 1
        /\ files = {CSV_FILE, PNG_FILE}
        /\ PrintedBefore("Downloading data", "PORTFOLIO ANALYSIS RESULTS")
        /\ PrintedBefore("PORTFOLIO ANALYSIS RESULTS", "Summary saved")
        /\ PrintedBefore("Summary saved", "Chart saved")
        /\ PrintedBefore("Chart saved", "Analysis complete!")

\* C19 as stated: a run in which an exception was raised during the download,
\* the metric computation, the CSV writing or the chart rendering ends with a
\* non-zero status, and 'Analysis complete!' is printed only after all steps.
C19_AnyExceptionExits ==
    /\ (pc = "exited" /\ (\/ Printed("Error: download raised")
                          \/ exit_cause \in {"ValueError", "Exception"}))
          => exit_status # 0
    /\ CompleteOnlyAfterAllSteps

\* C19 amended: an exception that reaches main's handler (from the metric
\* computation, the CSV writing or the chart rendering) ends the process with
\* a non-zero status; main takes its steps in the fixed order, and 'Analysis
\* complete!' is printed only after all of them.
C19_TopLevelHandler ==
    /\ []((pc = "exited" /\ exit_cause \in {"ValueError", "Exception"}) => exit_status # 0)
    /\ []CompleteOnlyAfterAllSteps
    /\ [][pc' # pc => (pc' = "exited" \/ <<pc, pc'>> \in StepOrder)]_vars

\* the chart rendering raised after the CSV file had been written
C19_Witness ==
    /\ pc = "exited"
    /\ exit_cause = "Exception"
    /\ files = {CSV_FILE}
    /\ exit_status = 1

\* the positions of the rolling volatility that hold a number
RollingDefined == {t \in 1..Len(m_ret.rolling) : DefinedNonNegative(m_ret.rolling[t])}

\* C20 as stated: the rolling volatility of n observations holds a defined
\* value for every full window and nothing else, W - 1 fewer points than the
\* input.
C20_TailOnly ==
    (m_ret.called /\ Len(series) >= window) =>
        /\ Len(m_ret.rolling) = Len(series) - (window - 1)
        /\ RollingDefined = 1..Len(m_ret.rolling)

\* C20 amended: the rolling volatility has one entry per observation; the
\* first W - 1 entries are NaN and every later entry is the annualized
\* volatility of the W observations ending there, which is a number for
\* W >= 2 and NaN for W = 1.
C20_SameLengthNaNHead ==
    (m_ret.called /\ Len(series) >= 1) =>
        /\ Len(m_ret.rolling) = Len(series)
        /\ \A t \in 1..Len(series) :
              IF t < window THEN m_ret.rolling[t] = Lit(NaN)
              ELSE m_ret.rolling[t] =
                      calculate_annualized_volatility(SubSeq(series, t - window + 1, t))
        /\ RollingDefined = IF window >= 2 THEN window..Len(series) ELSE {}

\* a window of two over three observations: one NaN, then two numbers
C20_Witness ==
    /\ m_ret.called
    /\ window = 2
    /\ Len(series) = 3
    /\ Len(m_ret.rolling) = 3
    /\ m_ret.rolling[1] = Lit(NaN)
    /\ RollingDefined = {2, 3}

\* the series holds one value c > -1 at every position
ConstantAboveMinusOne ==
    \A i \in 1..Len(series) : series[i] = series[1] /\ FLess(Rat(-1, 1), series[i])

\* (1 + c) ** n for n >= 0 and 1 + c > 0, as a fraction of integer powers
OnePlusPow(c, n) == LET b == FAdd(One, c) IN Rat(b[1] ^ n, b[2] ^ n)

\* C21: the cumulative return of n observations all equal to c > -1 is
\* (1 + c) ** n - 1, and it is 0 for n = 0.
C21_ConstantCompounds ==
    (m_ret.called /\ ConstantAboveMinusOne) =>
        IF Len(series) = 0 THEN m_ret.cumulative = Zero
        ELSE m_ret.cumulative = FSub(OnePlusPow(series[1], Len(series)), One)

\* three days at 10 percent compound to 33.1 percent
C21_Witness ==
    /\ m_ret.called
    /\ series = <<Rat(1, 10), Rat(1, 10), Rat(1, 10)>>
    /\ m_ret.cumulative = Rat(331, 1000)

\* the series the reported weights give on the rows of the returns table
WeightedBy(W) ==
    [k \in 1..Len(returns_df.rows) |->
        FSum([i \in 1..Len(W) |-> FMul(W[i][2], returns_df.rows[k][i])])]

\* C22: the 'Weights' mapping of calculate_portfolio_metrics has one entry per
\* column of the returns table, maps the i-th column's ticker to the i-th
\* normalized weight, sums to 1, and is the weight vector behind the portfolio
\* return series whose metrics the same record reports.
C22_WeightsReported ==
    PortfolioComputed =>
        LET n == Len(returns_df.columns)
            W == portfolio_metrics.Weights
        IN  /\ Len(W) = n
            /\ \A i \in 1..n :
                  /\ W[i][1] = returns_df.columns[i]
                  /\ W[i][2] = IF args.weights.given
                               THEN FDiv(args.weights.vals[i], FSum(args.weights.vals))
                               ELSE Rat(1, n)
            /\ FSum([i \in 1..n |-> W[i][2]]) = One
            /\ portfolio_returns = WeightedBy(W)
            /\ portfolio_metrics.Cumulative =
                  FMul(calculate_cumulative_return(WeightedBy(W)), Rat(100, 1))

\* --weights 0.1 0.1 for two tickers is reported as one half each
C22_Witness ==
    /\ PortfolioComputed
    /\ args.weights.given
    /\ args.weights.vals = <<Rat(1, 10), Rat(1, 10)>>
    /\ Len(returns_df.rows) >= 1
    /\ portfolio_metrics.Weights = << <<returns_df.columns[1], Rat(1, 2)>>,
                                      <<returns_df.columns[2], Rat(1, 2)>> >>

\* the summary file has just been written and main still holds its tables
CsvWritten == pc \in {"charts", "complete"} /\ CSV_FILE \in files

\* the per-asset rows and the portfolio row of the summary file
AssetRows == SubSeq(summary_csv, 1, Len(summary_csv) - 1)
PortfolioRow == summary_csv[Len(summary_csv)]

\* C23: in the summary file either every downloaded ticker has a row or none
\* has, all per-asset rows carry the same 'Trading Days', and the 'Trading
\* Days' of the PORTFOLIO row, the first asset's or 0 without asset rows, is
\* the number of observations of the portfolio return series.
C23_TradingDaysAgree ==
    CsvWritten =>
        /\ Len(summary_csv) >= 1
        /\ Len(AssetRows) \in {0, Len(prices.columns)}
        /\ \A i \in 1..Len(AssetRows) :
              /\ AssetRows[i].Ticker = prices.columns[i]
              /\ AssetRows[i].TradingDays = AssetRows[1].TradingDays
        /\ PortfolioRow.Ticker = PORTFOLIO
        /\ PortfolioRow.TradingDays =
              IF AssetRows # <<>> THEN AssetRows[1].TradingDays ELSE 0
        /\ PortfolioRow.TradingDays = Len(portfolio_returns)

\* two tickers with different numbers of prices, both with two trading days
C23_Witness ==
    /\ CsvWritten
    /\ Len(prices.columns) = 2
    /\ \E k \in 1..Len(prices.rows) : IsNaN(prices.rows[k][2])
    /\ Len(AssetRows) = 2
    /\ AssetRows[2].TradingDays = 2
    /\ PortfolioRow.TradingDays = 2

====
